---- MODULE Spec2Model ----
(***************************************************************************)
(* Model of the skeleton graph hierarchy of Kinetic-GAN:                   *)
(*   src/gans/csgn/utils/graph.py   Graph, get_hop_distance,               *)
(*                                  normalize_digraph                      *)
(*   src/utils/c_gen_st_gcn.py      st_gcn.upsample_s (reader of mapping)  *)
(* One behaviour is one construction Graph(max_hop, dilation): get_edge    *)
(* builds the four levels by coarsening the 25-joint skeleton, then every  *)
(* level gets its hop-distance matrix and its partitioned adjacency.       *)
(***************************************************************************)
EXTENDS Integers, Sequences, FiniteSets, TLC

\* ------------------------------------------------------------- bounds
\* max_hop is drawn from -1..MaxHop, dilation from -1..MaxDilation.
MaxHop == 2
MaxDilation == 2

\* ---------------------------------------------------- program constants
\* self.lvls = 4  (25 -> 11 -> 5 -> 1)
lvls == 4
\* nodes = [i for i in range(25)]
BaseNodes == 25
\* self.center = [21 - 1]
BaseCenter == 20
\* if start>10: break
SweepLimit == 10
\* np.inf: larger than every finite hop distance of the model
Inf == 1000

\* neighbor_base, 1-based joint pairs
neighbor_base ==
    { <<1, 2>>, <<2, 21>>, <<3, 21>>, <<4, 3>>, <<5, 21>>,
      <<6, 5>>, <<7, 6>>, <<8, 7>>, <<9, 21>>, <<10, 9>>,
      <<11, 10>>, <<12, 11>>, <<1, 13>>, <<14, 13>>, <<15, 14>>,
      <<16, 15>>, <<1, 17>>, <<18, 17>>, <<19, 18>>, <<20, 19>>,
      <<22, 8>>, <<23, 8>>, <<24, 12>>, <<25, 12>> }

\* neighbor_link = [(i - 1, j - 1) for (i, j) in neighbor_base], as undirected edges
neighbor_link == { {p[1] - 1, p[2] - 1} : p \in neighbor_base }

VARIABLES
    max_hop,      \* self.max_hop
    dilation,     \* self.dilation
    pc,           \* position in Graph.__init__ / get_edge
    err,          \* the exception that ended the construction, or "none"
    G,            \* the networkx graph being coarsened: [n: node order, e: edges]
    it,           \* number of finished iterations of "for _ in range(self.lvls-1)"
    stay,         \* stay
    start,        \* start
    remove,       \* remove
    idx,          \* position of "for i in G" (1-based)
    mapping,      \* mapping of the last relabeling (old id -> new id)
    num_node,     \* self.num_node
    nodes,        \* self.nodes
    edge,         \* self.edge
    center,       \* self.center
    lvl,          \* lvl of "for lvl in range(self.lvls)"
    hop_dis,      \* self.hop_dis
    parts,        \* per level, per valid hop: a_root, a_close, a_further
    norm_adj,     \* per level: adjacency and normalize_adjacency of get_adjacency
    As,           \* self.As
    marked,       \* history: every node put in remove during the current sweep
    absorbed,     \* per node of the level being coarsened: the removed neighbours
    node_mapping  \* node_mapping[L] for the levels built so far

vars == << max_hop, dilation, pc, err, G, it, stay, start, remove, idx, mapping,
           num_node, nodes, edge, center, lvl, hop_dis, parts, norm_adj, As,
           marked, absorbed, node_mapping >>

\* ------------------------------------------------------ graph helpers

Last(s) == s[Len(s)]

SeqToSet(s) == { s[i] : i \in 1..Len(s) }

\* G[i]: the neighbours of i
Neighbors(g, i) == { k \in SeqToSet(g.n) : {i, k} \in g.e /\ k # i }

\* len(G.edges(i))
Degree(g, i) == Cardinality(Neighbors(g, i))

\* G.remove_nodes_from(S): the nodes keep their order, incident edges go
RemoveNodes(g, S) ==
    [ n |-> SelectSeq(g.n, LAMBDA x : x \notin S),
      e |-> { e \in g.e : e \cap S = {} } ]

\* np.concatenate((np.array(G.edges), self_link)): each edge once, one self-loop per node
EdgeList(g) ==
    { <<a, b>> \in SeqToSet(g.n) \X SeqToSet(g.n) : a < b /\ {a, b} \in g.e }
        \cup { <<a, a>> : a \in SeqToSet(g.n) }

\* ------------------------------------------- nx.cycle_basis(G), line 89

RECURSIVE Reach(_, _)
\* the nodes reachable from the set S
Reach(g, S) ==
    LET T == S \cup UNION { Neighbors(g, i) : i \in S }
    IN  IF T = S THEN S ELSE Reach(g, T)

Connected(g) ==
    g.n = <<>> \/ Reach(g, {g.n[1]}) = SeqToSet(g.n)

RECURSIVE Core2(_)
\* what is left after stripping, again and again, the nodes of degree <= 1:
\* the nodes that lie on a cycle or between two cycles
Core2(g) ==
    LET low == { i \in SeqToSet(g.n) : Degree(g, i) <= 1 }
    IN  IF low = {} THEN g ELSE Core2(RemoveNodes(g, low))

\* The values "len(cycle)>0 and len(cycle[0])==len(G)" can take.  A cycle through
\* every node needs every node on a cycle and one component; when G is exactly
\* one ring the basis is that ring; with more independent cycles the order of the
\* basis is the library's choice, so both values are possible.
WholeGraphCycle(g) ==
    IF g.n = <<>> \/ Core2(g).n # g.n \/ ~Connected(g)
    THEN {FALSE}
    ELSE IF \A i \in SeqToSet(g.n) : Degree(g, i) = 2
         THEN {TRUE}
         ELSE {TRUE, FALSE}

\* ------------------------------------------------------------ get_edge

\* node_mapping bookkeeping: every neighbour of a removed node absorbs it
Absorb(a, g, S) ==
    [ k \in DOMAIN a |-> a[k] \cup { r \in S : k \in Neighbors(g, r) } ]

Init ==
    /\ max_hop \in -1..MaxHop
    /\ dilation \in -1..MaxDilation
    /\ pc = "init"
    /\ err = "none"
    /\ G = [n |-> <<>>, e |-> {}]
    /\ it = 0
    /\ stay = {}
    /\ start = 1
    /\ remove = <<>>
    /\ idx = 1
    /\ mapping = <<>>
    /\ num_node = <<>>
    /\ nodes = <<>>
    /\ edge = <<>>
    /\ center = <<>>
    /\ lvl = 0
    /\ hop_dis = <<>>
    /\ parts = <<>>
    /\ norm_adj = <<>>
    /\ As = <<>>
    /\ marked = {}
    /\ absorbed = <<>>
    /\ node_mapping = <<>>

\* lines 44-68: the level-0 graph
BaseGraph == [ n |-> [i \in 1..BaseNodes |-> i - 1], e |-> neighbor_link ]

GetEdgeBase ==
    /\ pc = "init"
    /\ G' = BaseGraph
    /\ center' = <<BaseCenter>>
    /\ edge' = <<EdgeList(BaseGraph)>>
    /\ nodes' = <<BaseGraph.n>>
    /\ num_node' = <<Len(BaseGraph.n)>>
    /\ pc' = "level"
    /\ UNCHANGED << max_hop, dilation, err, it, stay, start, remove, idx, mapping,
                    lvl, hop_dis, parts, norm_adj, As, marked, absorbed,
                    node_mapping >>

\* lines 71-73: one more level to build
BeginLevel ==
    /\ pc = "level"
    /\ it < lvls - 1
    /\ stay' = {}
    /\ start' = 1
    /\ marked' = {}
    /\ absorbed' = [ k \in SeqToSet(G.n) |-> {} ]
    /\ pc' = "pass"
    /\ UNCHANGED << max_hop, dilation, err, G, it, remove, idx, mapping, num_node,
                    nodes, edge, center, lvl, hop_dis, parts, norm_adj, As,
                    node_mapping >>

\* lines 74-76: a threshold pass begins
BeginPass ==
    /\ pc = "pass"
    /\ remove' = <<>>
    /\ idx' = 1
    /\ pc' = "scan"
    /\ UNCHANGED << max_hop, dilation, err, G, it, stay, start, mapping, num_node,
                    nodes, edge, center, lvl, hop_dis, parts, norm_adj, As, marked, absorbed, node_mapping >>

\* mutant of ToMark: the "i not in stay" test is forgotten
ToMark_IgnoreStay(g, i, st, sy) == Degree(g, i) = st

\* line 77
ToMark(g, i, st, sy) == Degree(g, i) = st /\ i \notin sy

\* lines 78-83: recon = [(l,m) for l in lost for m in lost if l!=m]
Recon(lost) == { {p[1], p[2]} : p \in { q \in lost \X lost : q[1] # q[2] } }

\* lines 76-84: one iteration of "for i in G"
Visit ==
    /\ pc = "scan"
    /\ idx <= Len(G.n)
    /\ LET i == G.n[idx]
           lost == Neighbors(G, i)
       IN  IF ToMark(G, i, start, stay)
           THEN /\ stay' = stay \cup lost
                /\ G' = [G EXCEPT !.e = @ \cup Recon(lost)]
                /\ remove' = Append(remove, i)
                /\ marked' = marked \cup {i}
           ELSE UNCHANGED << stay, G, remove, marked >>
    /\ idx' = idx + 1
    /\ UNCHANGED << max_hop, dilation, pc, err, it, start, mapping, num_node, nodes,
                    edge, center, lvl, hop_dis, parts, norm_adj, As, absorbed,
                    node_mapping >>

\* line 86: if start>10: break
Break ==
    /\ pc = "scan"
    /\ idx > Len(G.n)
    /\ start > SweepLimit
    /\ pc' = "relabel"
    /\ UNCHANGED << max_hop, dilation, err, G, it, stay, start, remove, idx, mapping,
                    num_node, nodes, edge, center, lvl, hop_dis, parts, norm_adj, As,
                    marked, absorbed, node_mapping >>

\* mutant of RemoveMarkedNodes: only the first marked node is removed
RemoveMarkedNodes_OnlyFirst(g, rm) ==
    IF rm = <<>> THEN g ELSE RemoveNodes(g, {rm[1]})

\* line 87: G.remove_nodes_from(remove)
RemoveMarkedNodes(g, rm) == RemoveNodes(g, SeqToSet(rm))

\* lines 86-87: no break, the marked nodes are removed
RemoveMarked ==
    /\ pc = "scan"
    /\ idx > Len(G.n)
    /\ ~(start > SweepLimit)
    /\ G' = RemoveMarkedNodes(G, remove)
    /\ absorbed' = Absorb(absorbed, G, SeqToSet(remove))
    /\ pc' = "cycle"
    /\ UNCHANGED << max_hop, dilation, err, it, stay, start, remove, idx, mapping,
                    num_node, nodes, edge, center, lvl, hop_dis, parts, norm_adj, As,
                    marked, node_mapping >>

\* mutant of LastNodes: the whole-graph-cycle reduction removes nothing
LastNodes_None(g, sy) == {}

\* line 92: last = [x for x in G if x not in stay]
LastNodes(g, sy) == { x \in SeqToSet(g.n) : x \notin sy }

\* lines 89-95: the whole-graph-cycle reduction, then start+=1
CycleCheck ==
    /\ pc = "cycle"
    /\ \E forced \in WholeGraphCycle(G) :
          IF forced
          THEN /\ G' = RemoveNodes(G, LastNodes(G, stay))
               /\ absorbed' = Absorb(absorbed, G, LastNodes(G, stay))
          ELSE UNCHANGED << G, absorbed >>
    /\ start' = start + 1
    /\ pc' = "pass"
    /\ UNCHANGED << max_hop, dilation, err, it, stay, remove, idx, mapping, num_node,
                    nodes, edge, center, lvl, hop_dis, parts, norm_adj, As, marked, node_mapping >>

\* lines 97-99: mapping[int(x)] = i for i, x in enumerate(G)
RelabelMap(g) == [ x \in SeqToSet(g.n) |-> (CHOOSE i \in 1..Len(g.n) : g.n[i] = x) - 1 ]

\* lines 102-103: nx.relabel_nodes(G, mapping)
RelabelGraph(g, m) ==
    [ n |-> [i \in 1..Len(g.n) |-> m[g.n[i]]],
      e |-> { { m[x] : x \in e } : e \in g.e } ]

\* mutant of NextCenter: the old id is kept instead of the relabeled one
NextCenter_Stale(c, g, m) == Append(c, Last(c))

\* lines 100-101: the center follows the relabeling when it survived
NextCenter(c, g, m) ==
    IF Last(c) \in SeqToSet(g.n) THEN Append(c, m[Last(c)]) ELSE c

\* node_mapping[L]: per node of the new level, itself and the nodes it absorbed
MappingOf(g, m, a) ==
    [ c \in { m[x] : x \in SeqToSet(g.n) } |->
        LET x == CHOOSE y \in SeqToSet(g.n) : m[y] = c IN {x} \cup a[x] ]

\* lines 97-112: relabel the survivors and record the level
Relabel ==
    /\ pc = "relabel"
    /\ LET m == RelabelMap(G)
           H == RelabelGraph(G, m)
       IN  /\ mapping' = m
           /\ center' = NextCenter(center, G, m)
           /\ G' = H
           /\ nodes' = Append(nodes, H.n)
           /\ edge' = Append(edge, EdgeList(H))
           /\ num_node' = Append(num_node, Len(H.n))
           /\ node_mapping' = Append(node_mapping, MappingOf(G, m, absorbed))
    /\ it' = it + 1
    /\ pc' = "level"
    /\ UNCHANGED << max_hop, dilation, err, stay, start, remove, idx, lvl, hop_dis,
                    parts, norm_adj, As, marked, absorbed >>

\* lines 115-118
EdgeAsserts ==
    /\ Len(num_node) = lvls
    /\ Len(nodes) = lvls
    /\ Len(edge) = lvls
    /\ Len(center) = lvls

\* the loop of line 71 is over: the assertions, then line 36
EndGetEdge ==
    /\ pc = "level"
    /\ ~(it < lvls - 1)
    /\ IF EdgeAsserts
       THEN pc' = "hop" /\ err' = err
       ELSE pc' = "error" /\ err' = "AssertionError"
    /\ lvl' = 0
    /\ UNCHANGED << max_hop, dilation, G, it, stay, start, remove, idx, mapping,
                    num_node, nodes, edge, center, hop_dis, parts, norm_adj, As,
                    marked, absorbed, node_mapping >>

\* ---------------------------------------------------- get_hop_distance

\* f as a table: every entry is computed once, here, and not again at each use
Table(f) == IF f = f THEN f ELSE f

\* the index set of an n x n matrix
Idx(n) == (0..(n - 1)) \X (0..(n - 1))

\* mutant of AdjMatrix: only A[i, j] = 1 is set
AdjMatrix_OneWay(n, el) ==
    [ p \in Idx(n) |-> IF <<p[1], p[2]>> \in el THEN 1 ELSE 0 ]

\* lines 153-156: A[j, i] = 1; A[i, j] = 1 for every (i, j) of edge[lvl]
AdjMatrix(n, el) ==
    Table([ p \in Idx(n) |-> IF <<p[1], p[2]>> \in el \/ <<p[2], p[1]>> \in el THEN 1 ELSE 0 ])

Identity(n) == [ p \in Idx(n) |-> IF p[1] = p[2] THEN 1 ELSE 0 ]

RECURSIVE Dot(_, _, _, _, _)
\* sum over k' < k of X[i, k'] * Y[k', j]
Dot(X, Y, i, j, k) ==
    IF k = 0 THEN 0 ELSE X[<<i, k - 1>>] * Y[<<k - 1, j>>] + Dot(X, Y, i, j, k - 1)

MatMul(X, Y, n) == Table([ p \in Idx(n) |-> Dot(X, Y, p[1], p[2], n) ])

RECURSIVE TransferMat(_, _, _)
\* line 160: [np.linalg.matrix_power(A, d) for d in range(k)]
TransferMat(A, n, k) ==
    IF k <= 0 THEN <<>>
    ELSE IF k = 1 THEN <<Identity(n)>>
    ELSE LET prev == TransferMat(A, n, k - 1)
         IN  Append(prev, MatMul(Last(prev), A, n))

\* line 161: arrive_mat = (np.stack(transfer_mat) > 0)
ArriveMat(T) == [ d \in 1..Len(T) |-> [ p \in DOMAIN T[d] |-> T[d][p] > 0 ] ]

RECURSIVE HopLoop(_, _, _)
\* lines 162-163: for d in range(max_hop, -1, -1): hop_dis[arrive_mat[d]] = d
HopLoop(h, arrive, d) ==
    IF d < 0 THEN h
    ELSE HopLoop(Table([ p \in DOMAIN h |-> IF arrive[d + 1][p] THEN d ELSE h[p] ]), arrive, d - 1)

\* lines 152-164, for max_hop >= 0 (np.stack raises on an empty list otherwise)
get_hop_distance(n, el, mh) ==
    LET A == AdjMatrix(n, el)
        arrive == ArriveMat(TransferMat(A, n, mh + 1))
    IN  HopLoop([ p \in Idx(n) |-> Inf ], arrive, mh)

\* line 37
HopDistance ==
    /\ pc = "hop"
    /\ IF max_hop + 1 <= 0
       THEN /\ pc' = "error"
            /\ err' = "ValueError"
            /\ hop_dis' = hop_dis
       ELSE /\ pc' = "adj"
            /\ err' = err
            /\ hop_dis' = Append(hop_dis, get_hop_distance(num_node[lvl + 1], edge[lvl + 1], max_hop))
    /\ UNCHANGED << max_hop, dilation, G, it, stay, start, remove, idx, mapping,
                    num_node, nodes, edge, center, lvl, parts, norm_adj, As, marked, absorbed, node_mapping >>

\* ------------------------------------------------------- rationals
\* A weight is a fraction <<numerator, denominator>> in lowest terms.

RECURSIVE GCD(_, _)
GCD(a, b) == IF b = 0 THEN a ELSE GCD(b, a % b)

Rat(a, b) == LET g == GCD(a, b) IN <<a \div g, b \div g>>

Zero == <<0, 1>>

One == <<1, 1>>

RatAdd(x, y) ==
    IF x[1] = 0 THEN y
    ELSE IF y[1] = 0 THEN x
    ELSE Rat(x[1] * y[2] + y[1] * x[2], x[2] * y[2])

RatMul(x, y) == IF x[1] = 0 \/ y[1] = 0 THEN Zero ELSE Rat(x[1] * y[1], x[2] * y[2])

\* ------------------------------------------------------ normalize_digraph

RECURSIVE ColSum(_, _, _)
\* line 168: Dl = np.sum(A, 0), the sum of column i over the first k rows
ColSum(A, i, k) == IF k = 0 THEN 0 ELSE A[<<k - 1, i>>] + ColSum(A, i, k - 1)

\* mutant of DegreeInv: Dl[i] is not inverted
DegreeInv_NoInverse(A, n) ==
    [ p \in Idx(n) |->
        IF p[1] = p[2] /\ ColSum(A, p[1], n) > 0 THEN <<ColSum(A, p[1], n), 1>> ELSE Zero ]

\* lines 170-173: Dn[i, i] = Dl[i]**(-1) where Dl[i] > 0
DegreeInv(A, n) ==
    Table([ p \in Idx(n) |->
        IF p[1] = p[2] /\ ColSum(A, p[1], n) > 0 THEN Rat(1, ColSum(A, p[1], n)) ELSE Zero ])

RECURSIVE RatDot(_, _, _, _, _)
RatDot(A, Dn, j, i, k) ==
    IF k = 0 THEN Zero
    ELSE RatAdd(RatMul(<<A[<<j, k - 1>>], 1>>, Dn[<<k - 1, i>>]), RatDot(A, Dn, j, i, k - 1))

\* lines 167-175: AD = np.dot(A, Dn)
normalize_digraph(A, n) ==
    LET Dn == DegreeInv(A, n)
    IN  Table([ p \in Idx(n) |-> RatDot(A, Dn, p[1], p[2], n) ])

\* ---------------------------------------------------------- get_adjacency

RECURSIVE Range(_, _, _)
\* range(a, stop, step) for step # 0
Range(a, stop, step) ==
    IF (step > 0 /\ a < stop) \/ (step < 0 /\ a > stop)
    THEN <<a>> \o Range(a + step, stop, step)
    ELSE <<>>

\* line 122: valid_hop = range(0, self.max_hop + 1, self.dilation)
ValidHop(mh, dil) == Range(0, mh + 1, dil)

\* lines 123-125: adjacency[self.hop_dis[lvl] == hop] = 1 for hop in valid_hop
RawAdjacency(h, n, valid) ==
    Table([ p \in Idx(n) |-> IF \E k \in 1..Len(valid) : h[p] = valid[k] THEN 1 ELSE 0 ])

\* lines 136-141: which subset the pair (j, i) goes to, by the distances to the center
Subset(h, j, i, c) ==
    IF h[<<j, c>>] = h[<<i, c>>] THEN "root"
    ELSE IF h[<<j, c>>] > h[<<i, c>>] THEN "close"
    ELSE "further"

\* lines 130-141: a_root, a_close, a_further of one hop
Partition(h, n, c, hop, NA) ==
    LET pick(name) ==
            [ p \in Idx(n) |->
                IF h[p] = hop /\ Subset(h, p[1], p[2], c) = name THEN NA[p] ELSE Zero ]
    IN  [ hop |-> hop, a_root |-> pick("root"), a_close |-> pick("close"),
          a_further |-> pick("further") ]

MatAdd(X, Y) == Table([ p \in DOMAIN X |-> RatAdd(X[p], Y[p]) ])

\* mutant of Slices: a_close is left out of the second slice
Slices_DropClose(part) ==
    IF part.hop = 0
    THEN <<part.a_root>>
    ELSE <<part.a_root, part.a_further>>

\* lines 142-146: the slices one hop contributes
Slices(part) ==
    IF part.hop = 0
    THEN <<part.a_root>>
    ELSE <<MatAdd(part.a_root, part.a_close), part.a_further>>

RECURSIVE Stack(_, _)
\* lines 128-147: A, the slices of the first k hops in order
Stack(ps, k) == IF k = 0 THEN <<>> ELSE Stack(ps, k - 1) \o Slices(ps[k])

\* lines 121-148
GetAdjacency ==
    /\ pc = "adj"
    /\ IF dilation = 0 \/ ValidHop(max_hop, dilation) = <<>>
       THEN /\ pc' = "error"
            /\ err' = "ValueError"
            /\ UNCHANGED << lvl, parts, norm_adj, As >>
       ELSE LET n == num_node[lvl + 1]
                h == hop_dis[lvl + 1]
                valid == ValidHop(max_hop, dilation)
                adjacency == RawAdjacency(h, n, valid)
                normalize_adjacency == normalize_digraph(adjacency, n)
                ps == [ k \in 1..Len(valid) |->
                          Partition(h, n, center[lvl + 1], valid[k], normalize_adjacency) ]
            IN  /\ norm_adj' = Append(norm_adj, [raw |-> adjacency, norm |-> normalize_adjacency])
                /\ parts' = Append(parts, ps)
                /\ As' = Append(As, Stack(ps, Len(ps)))
                /\ lvl' = lvl + 1
                /\ pc' = IF lvl + 1 < lvls THEN "hop" ELSE "done"
                /\ err' = err
    /\ UNCHANGED << max_hop, dilation, G, it, stay, start, remove, idx, mapping,
                    num_node, nodes, edge, center, hop_dis, marked, absorbed,
                    node_mapping >>

Next ==
    \/ GetEdgeBase
    \/ BeginLevel
    \/ BeginPass
    \/ Visit
    \/ Break
    \/ RemoveMarked
    \/ CycleCheck
    \/ Relabel
    \/ EndGetEdge
    \/ HopDistance
    \/ GetAdjacency

Spec == Init /\ [][Next]_vars

\* ================================================================ claims

\* get_edge has returned or raised
GetEdgeDone == pc \in {"hop", "adj", "done", "error"}

\* a coarsening sweep of one level is under way
InSweep == pc \in {"pass", "scan", "cycle", "relabel"}

RECURSIVE BFS(_, _, _, _, _)
\* breadth-first layers over the edges el: the hop count from the source to every node
BFS(n, el, dist, frontier, d) ==
    IF frontier = {} THEN dist
    ELSE LET nxt == { k \in 0..(n - 1) :
                        /\ dist[k] = Inf
                        /\ \E f \in frontier : <<f, k>> \in el \/ <<k, f>> \in el }
         IN  BFS(n, el, Table([ k \in 0..(n - 1) |-> IF k \in nxt THEN d + 1 ELSE dist[k] ]),
                 nxt, d + 1)

\* the shortest-path hop count between every two nodes of a level (Inf: no path)
ShortestPath(n, el) ==
    Table([ s \in 0..(n - 1) |->
              BFS(n, el, [ k \in 0..(n - 1) |-> IF k = s THEN 0 ELSE Inf ], {s}, 0) ])

\* C1: for the 25-joint base topology get_edge produces exactly 4 levels with
\* node counts 25, 11, 5, 1 in that order; num_node[0] = 25 and num_node never
\* increases from one level to the next.
C1_LevelCounts ==
    /\ \A k \in 1..(Len(num_node) - 1) : num_node[k + 1] <= num_node[k]
    /\ Len(num_node) >= 1 => num_node[1] = 25
    /\ GetEdgeDone => num_node = <<25, 11, 5, 1>>

C1_Witness == pc = "done" /\ Len(num_node) = lvls /\ num_node[lvls] = 1

\* C6: after get_edge one center id is recorded per level (the final
\* assertions hold), center[0] = 20, the center of every level survives the
\* coarsening pass and the next center is its relabeled id, so every center is a
\* node of its level.
C6_CenterTracked ==
    /\ GetEdgeDone =>
          /\ err # "AssertionError"
          /\ Len(center) = lvls
          /\ center[1] = 20
          /\ \A L \in 1..lvls : 0 <= center[L] /\ center[L] < num_node[L]
    /\ (pc = "level" /\ it >= 1) =>
          /\ Len(center) = it + 1
          /\ center[it] \in DOMAIN mapping
          /\ center[it + 1] = mapping[center[it]]

C6_Witness == pc = "level" /\ it = 2 /\ center = <<20, 10, 4>>

\* C9: during the sweep of a level no node is both marked for removal and in
\* stay, and a node once added to stay is never removed from the graph, neither
\* by the per-threshold removal nor by the whole-graph-cycle reduction.
C9_StayKept ==
    InSweep =>
        /\ marked \cap stay = {}
        /\ SeqToSet(remove) \cap stay = {}
        /\ stay \subseteq SeqToSet(G.n)

C9_Witness ==
    /\ pc = "relabel"
    /\ it = 2
    /\ stay # {}
    /\ Len(G.n) < num_node[it + 1]

\* C10: every node marked for removal at any threshold of a level's sweep is
\* gone from the graph when the sweep ends (and already after the removal step
\* of its pass).
C10_MarkedRemoved ==
    pc \in {"cycle", "relabel"} => marked \cap SeqToSet(G.n) = {}

C10_Witness == pc = "relabel" /\ marked # {} /\ start = SweepLimit + 1

\* the level whose hop-distance matrix was appended last (1-based), if any
HopLevel == Len(hop_dis)

\* C4: for every level and every max_hop >= 0 the hop-distance matrix holds the
\* shortest-path length of every pair at most max_hop apart and infinity for
\* every other pair, so it is symmetric with a zero diagonal.
C4_HopDistance ==
    (pc = "adj" /\ HopLevel >= 1) =>
        LET n == num_node[HopLevel]
            h == hop_dis[HopLevel]
            sp == ShortestPath(n, edge[HopLevel])
        IN  /\ max_hop >= 0
            /\ DOMAIN h = Idx(n)
            /\ \A p \in Idx(n) :
                  /\ h[p] = (IF sp[p[1]][p[2]] <= max_hop THEN sp[p[1]][p[2]] ELSE Inf)
                  /\ h[p] = h[<<p[2], p[1]>>]
                  /\ (p[1] = p[2] => h[p] = 0)

C4_Witness ==
    /\ pc = "adj"
    /\ HopLevel = 1
    /\ max_hop = 2
    /\ hop_dis[1][<<0, 20>>] = 2
    /\ hop_dis[1][<<0, 2>>] = Inf

RECURSIVE RatColSum(_, _, _)
\* the sum of the first k entries of column i of a matrix of fractions
RatColSum(M, i, k) == IF k = 0 THEN Zero ELSE RatAdd(M[<<k - 1, i>>], RatColSum(M, i, k - 1))

RECURSIVE IntColSum(_, _, _)
IntColSum(M, i, k) == IF k = 0 THEN 0 ELSE M[<<k - 1, i>>] + IntColSum(M, i, k - 1)

\* the level whose adjacency was appended last (1-based), if any
AdjLevel == Len(As)

\* C7: in the normalized adjacency of every level, a column whose raw binary
\* column has a nonzero sum sums to exactly 1, each entry being raw[j, i] over
\* the column sum; a column with zero sum stays all zero.
C7_ColumnsNormalized ==
    (pc \in {"hop", "done"} /\ AdjLevel >= 1) =>
        LET n == num_node[AdjLevel]
            raw == norm_adj[AdjLevel].raw
            norm == norm_adj[AdjLevel].norm
        IN  \A i \in 0..(n - 1) :
               LET cs == IntColSum(raw, i, n)
               IN  IF cs > 0
                   THEN /\ RatColSum(norm, i, n) = One
                        /\ \A j \in 0..(n - 1) : norm[<<j, i>>] = Rat(raw[<<j, i>>], cs)
                   ELSE \A j \in 0..(n - 1) : norm[<<j, i>>] = Zero

C7_Witness ==
    /\ pc = "hop"
    /\ AdjLevel = 1
    /\ norm_adj[1].norm[<<2, 20>>] = <<1, 5>>
    /\ norm_adj[1].norm[<<20, 2>>] = <<1, 3>>

\* the normalized adjacency over the pairs at most one hop apart, from the
\* shortest paths of the level
NearNorm(n, el) ==
    LET sp == ShortestPath(n, el)
    IN  [ p \in Idx(n) |->
            IF sp[p[1]][p[2]] <= 1
            THEN Rat(1, Cardinality({ k \in 0..(n - 1) : sp[k][p[2]] <= 1 }))
            ELSE Zero ]

\* C2: for max_hop = 1 and dilation = 1 the adjacency tensor of every level
\* has exactly 3 slices, whose entries at every (j, i) sum to the normalized
\* adjacency over the pairs with hop distance 0 or 1, every nonzero entry lying
\* in exactly one slice.
C2_SlicesReconstruct ==
    (max_hop = 1 /\ dilation = 1 /\ pc \in {"hop", "done"} /\ AdjLevel >= 1) =>
        LET n == num_node[AdjLevel]
            A == As[AdjLevel]
            ref == NearNorm(n, edge[AdjLevel])
        IN  /\ Len(A) = 3
            /\ \A p \in Idx(n) :
                  /\ RatAdd(A[1][p], RatAdd(A[2][p], A[3][p])) = ref[p]
                  /\ ref[p] # Zero => Cardinality({ k \in 1..3 : A[k][p] # Zero }) = 1
                  /\ ref[p] = Zero => \A k \in 1..3 : A[k][p] = Zero
            /\ pc = "done" => Len(As) = lvls

C2_Witness ==
    /\ max_hop = 1
    /\ dilation = 1
    /\ pc = "done"
    /\ Len(As) = lvls
    /\ As[1][3][<<20, 2>>] = <<1, 3>>
    /\ As[1][2][<<2, 20>>] = <<1, 5>>

\* which subset the shortest-path distances to the center ask for
WantedSubset(sp, j, i, c) ==
    IF sp[j][c] = sp[i][c] THEN "root"
    ELSE IF sp[j][c] > sp[i][c] THEN "close"
    ELSE "further"

\* C3: every pair (j, i) at a valid hop distance h has its normalized weight
\* in the root subset when j and i are equally far from the center, in the
\* closer subset when j is farther than i, in the farther subset when j is
\* closer than i, the distance from the center being the shortest-path hop
\* count, also for nodes more than max_hop hops from the center.
C3_PartitionByTrueDistance ==
    (pc \in {"hop", "done"} /\ AdjLevel >= 1) =>
        LET n == num_node[AdjLevel]
            h == hop_dis[AdjLevel]
            c == center[AdjLevel]
            NA == norm_adj[AdjLevel].norm
            sp == ShortestPath(n, edge[AdjLevel])
            ps == parts[AdjLevel]
        IN  \A k \in 1..Len(ps) : \A p \in Idx(n) :
               h[p] = ps[k].hop =>
                  LET w == WantedSubset(sp, p[1], p[2], c)
                  IN  /\ ps[k].a_root[p] = (IF w = "root" THEN NA[p] ELSE Zero)
                      /\ ps[k].a_close[p] = (IF w = "close" THEN NA[p] ELSE Zero)
                      /\ ps[k].a_further[p] = (IF w = "further" THEN NA[p] ELSE Zero)

\* max_hop negative, no valid hop, or a dilation that does not divide max_hop
BadParams ==
    \/ max_hop < 0
    \/ dilation <= 0
    \/ max_hop % dilation # 0

\* C8: a construction with a negative max_hop, with a dilation that does not
\* evenly divide the hop range 0..max_hop, or with no valid hop ends in an error
\* and never builds an adjacency tensor.
C8_BadParamsRejected ==
    BadParams => (As = <<>> /\ pc # "done")

\* how many coarse nodes of node_mapping[L] hold the fine node x
Holders(L, x) == { c \in DOMAIN node_mapping[L] : x \in node_mapping[L][c] }

====
